---- MODULE Spec2Model ----
(***************************************************************************)
(* Model of the chat client's streaming artifact handling:                 *)
(*   ConversationArea.sendMessage / stopStreaming  (incremental scanner,   *)
(*     SSE event handlers, React state updates),                           *)
(*   detectArtifacts (offline extractor),                                  *)
(*   stripCodeBlocksAndArtifacts (display-strip filter),                   *)
(* together with the event sequence the server route /chat writes.         *)
(*                                                                         *)
(* Text is a sequence of lexemes.  Each lexeme is the literal piece of     *)
(* source text it stands for; the markers '<antArtifact' and               *)
(* '</antArtifact>' are several lexemes long, so a fragment boundary can   *)
(* fall inside them.  Offsets are 0-based as in JavaScript, -1 = absent.   *)
(***************************************************************************)
EXTENDS Integers, Sequences, FiniteSets, TLC

(***************************************************************************)
(* Bounds of the model                                                     *)
(***************************************************************************)
MaxTurns == 2

\* sendMessage calls that may be in flight at once (a call stays in flight
\* when the user stops it during its fetch)
MaxInFlight == 2

\* In the specification with several turns a fragment ends at a multiple of
\* TurnGrain lexemes or at the end of the text.
TurnGrain == 7

(***************************************************************************)
(* String primitives of JavaScript over lexeme sequences                   *)
(***************************************************************************)
OpenTag == <<"<", "antArtifact">>

CloseTag == <<"<", "/", "antArtifact", ">">>

MinOf(S) == CHOOSE m \in S : \A k \in S : m <= k

MaxOf(S) == CHOOSE m \in S : \A k \in S : m >= k

IsWs(c) == c \in {" ", "\n"}

StartsAt(s, lit, i) ==
  /\ i >= 0
  /\ i + Len(lit) <= Len(s)
  /\ \A k \in 1..Len(lit) : s[i + k] = lit[k]

IndexOfFrom(s, lit, from) ==
  LET c == {i \in from..(Len(s) - Len(lit)) : StartsAt(s, lit, i)}
  IN  IF c = {} THEN -1 ELSE MinOf(c)

IndexOf(s, lit) == IndexOfFrom(s, lit, 0)

LastIndexOf(s, lit) ==
  LET c == {i \in 0..(Len(s) - Len(lit)) : StartsAt(s, lit, i)}
  IN  IF c = {} THEN -1 ELSE MaxOf(c)

Includes(s, lit) == IndexOf(s, lit) # -1

Substring(s, a, b) == IF a >= b THEN <<>> ELSE SubSeq(s, a + 1, b)

SubstringFrom(s, a) == Substring(s, a, Len(s))

Trim(s) ==
  LET nw == {i \in 1..Len(s) : ~IsWs(s[i])}
  IN  IF nw = {} THEN <<>> ELSE SubSeq(s, MinOf(nw), MaxOf(nw))

(***************************************************************************)
(* stripCodeBlocksAndArtifacts (display-strip filter)                      *)
(***************************************************************************)
\* The code-fence delimiter (three backquotes), written "~~~" here.
Fence == "~~~"

Placeholder == "[Code in artifact panel]"

\* One match of /<antArtifact\s+[^>]*>[\s\S]*?<\/antArtifact>/ starting at
\* offset i: the offset just past the match, or -1 when there is none.
BlockMatchEnd(s, i) ==
  IF ~(StartsAt(s, OpenTag, i) /\ i + 2 < Len(s) /\ IsWs(s[i + 3]))
  THEN -1
  ELSE LET g == IndexOfFrom(s, <<">">>, i + 3)
       IN  IF g = -1 THEN -1
           ELSE LET c == IndexOfFrom(s, CloseTag, g + 1)
                IN  IF c = -1 THEN -1 ELSE c + Len(CloseTag)

\* .replace(/<antArtifact\s+[^>]*>[\s\S]*?<\/antArtifact>/g, '')
RECURSIVE RemoveCompleteBlocks(_)
RemoveCompleteBlocks(s) ==
  LET c == {i \in 0..(Len(s) - 1) : BlockMatchEnd(s, i) # -1}
  IN  IF c = {} THEN s
      ELSE LET i == MinOf(c)
           IN  Substring(s, 0, i) \o RemoveCompleteBlocks(SubstringFrom(s, BlockMatchEnd(s, i)))

\* if (includes('<antArtifact') && !includes('</antArtifact>'))
\*   .replace(/<antArtifact[\s\S]*$/g, '')
RemoveIncompleteBlock(s) ==
  IF Includes(s, OpenTag) /\ ~Includes(s, CloseTag)
  THEN Substring(s, 0, IndexOf(s, OpenTag))
  ELSE s

\* .replace(/~~~[\s\S]*?~~~/g, '[Code in artifact panel]')
RECURSIVE ReplaceFences(_)
ReplaceFences(s) ==
  LET a == IndexOf(s, <<Fence>>)
  IN  IF a = -1 THEN s
      ELSE LET b == IndexOfFrom(s, <<Fence>>, a + 1)
           IN  IF b = -1 THEN s
               ELSE Substring(s, 0, a) \o <<Placeholder>> \o ReplaceFences(SubstringFrom(s, b + 1))

\* .replace(/\n{3,}/g, '\n\n')
RECURSIVE CollapseNewlines(_)
CollapseNewlines(s) ==
  IF Len(s) < 3 THEN s
  ELSE IF s[1] = "\n" /\ s[2] = "\n" /\ s[3] = "\n"
       THEN LET rest == {i \in 1..Len(s) : s[i] # "\n"}
                stop == IF rest = {} THEN Len(s) + 1 ELSE MinOf(rest)
            IN  <<"\n", "\n">> \o CollapseNewlines(SubSeq(s, stop, Len(s)))
       ELSE <<s[1]>> \o CollapseNewlines(Tail(s))

stripCodeBlocksAndArtifacts(content) ==
  Trim(CollapseNewlines(ReplaceFences(RemoveIncompleteBlock(RemoveCompleteBlocks(content)))))

(***************************************************************************)
(* Attribute lexemes and the attribute regular expressions                 *)
(***************************************************************************)
IdA == "identifier=\"a\""

IdB == "identifier=\"b\""

IdC == "identifier=\"c\""

TySheet == "type=\"application/vnd.ant.spreadsheet\""

TyCode == "type=\"application/vnd.ant.code\""

TyChart == "type=\"application/vnd.ant.chart\""

TyMarkdown == "type=\"text/markdown\""

TyHtml == "type=\"text/html\""

LangHtml == "language=\"html\""

LangPython == "language=\"python\""

TitleT == "title=\"T\""

TitleEmpty == "title=\"\""

AttrKey(tok) ==
  CASE tok \in {IdA, IdB, IdC} -> "identifier"
    [] tok \in {TySheet, TyCode, TyChart, TyMarkdown, TyHtml} -> "type"
    [] tok \in {LangHtml, LangPython} -> "language"
    [] tok \in {TitleT, TitleEmpty} -> "title"
    [] OTHER -> ""

AttrVal(tok) ==
  CASE tok = IdA -> "a"
    [] tok = IdB -> "b"
    [] tok = IdC -> "c"
    [] tok = TySheet -> "application/vnd.ant.spreadsheet"
    [] tok = TyCode -> "application/vnd.ant.code"
    [] tok = TyChart -> "application/vnd.ant.chart"
    [] tok = TyMarkdown -> "text/markdown"
    [] tok = TyHtml -> "text/html"
    [] tok = LangHtml -> "html"
    [] tok = LangPython -> "python"
    [] tok = TitleT -> "T"
    [] OTHER -> ""

\* a match that succeeds, with an empty value, when the attribute is absent
AttrMatchLax(str, key, plus) ==
  LET c == {i \in 1..Len(str) : AttrKey(str[i]) = key /\ (plus => AttrVal(str[i]) # "")}
  IN  IF c = {} THEN [found |-> TRUE, val |-> ""]
      ELSE [found |-> TRUE, val |-> AttrVal(str[MinOf(c)])]

\* str.match(/key\s*=\s*"([^"]+)"/i) (plus = TRUE) or /key\s*=\s*"([^"]*)"/i
\* (plus = FALSE): the first lexeme that spells the attribute; [1] is val.
AttrMatch(str, key, plus) ==
  LET c == {i \in 1..Len(str) : AttrKey(str[i]) = key /\ (plus => AttrVal(str[i]) # "")}
  IN  IF c = {} THEN [found |-> FALSE, val |-> ""]
      ELSE [found |-> TRUE, val |-> AttrVal(str[MinOf(c)])]

\* type.includes(sub) for the type values of the model
TypeIncludes(type, sub) ==
  CASE sub = "spreadsheet" -> type = "application/vnd.ant.spreadsheet"
    [] sub = "code" -> type = "application/vnd.ant.code"
    [] sub = "html" -> type = "text/html"
    [] sub = "chart" -> type = "application/vnd.ant.chart"
    [] OTHER -> FALSE

(***************************************************************************)
(* Artifacts                                                               *)
(***************************************************************************)
\* content: string | object
StringContent(s) == [tag |-> "string", val |-> s]

ObjectContent(s) == [tag |-> "object", val |-> s]

MkArtifact(id, type, title, content, code) ==
  [id |-> id, type |-> type, title |-> title, content |-> content, code |-> code]

NoArtifact == MkArtifact("", "", "", StringContent(<<>>), <<>>)

\* JSON.parse over the lexemes of the model: the only JSON text is the empty
\* object, with optional whitespace around and inside it.
JSONParse(s) ==
  LET body == SelectSeq(s, LAMBDA c : ~IsWs(c))
  IN  IF body = <<"{", "}">> THEN [ok |-> TRUE, val |-> body]
      ELSE [ok |-> FALSE, val |-> <<>>]

(***************************************************************************)
(* Incremental scanner: the text_delta branch of sendMessage               *)
(***************************************************************************)
\* artifactMetadata = null
NoMeta == [id |-> "", type |-> "", title |-> "", language |-> ""]

\* The locals of one sendMessage call, as declared before its read loop.
InitScanner ==
  [assistantContent |-> <<>>,
   insideArtifact |-> FALSE,
   openingTagIndex |-> -1,
   codeStart |-> -1,
   metadataStr |-> <<>>,
   artifactCodeBuffer |-> <<>>,
   artifactMetadata |-> NoMeta]

artType(type, language) ==
  IF TypeIncludes(type, "spreadsheet") THEN "excel"
  ELSE IF TypeIncludes(type, "code") /\ language \in {"html", "javascript"} THEN "html"
  ELSE IF TypeIncludes(type, "html") THEN "html"
  ELSE "text"

\* An event of the scanner: what it hands to setStreamingArtifact /
\* setArtifacts.  at = openingTagIndex of the block the event belongs to.
Event(type, at, id, art, code) ==
  [type |-> type, at |-> at, id |-> id, art |-> art, code |-> code]

\* the detection without the !insideArtifact guard: an open marker in the
\* buffer restarts the block on every fragment
DetectOpenUnguarded(sc) ==
  IF Includes(sc.assistantContent, OpenTag)
  THEN [sc EXCEPT !.insideArtifact = TRUE,
                  !.openingTagIndex = LastIndexOf(sc.assistantContent, OpenTag),
                  !.codeStart = -1,
                  !.metadataStr = <<>>,
                  !.artifactMetadata = NoMeta,
                  !.artifactCodeBuffer = <<>>]
  ELSE sc

\* if (!insideArtifact && assistantContent.includes('<antArtifact')) {...}
DetectOpen(sc) ==
  IF ~sc.insideArtifact /\ Includes(sc.assistantContent, OpenTag)
  THEN [sc EXCEPT !.insideArtifact = TRUE,
                  !.openingTagIndex = LastIndexOf(sc.assistantContent, OpenTag),
                  !.codeStart = -1,
                  !.metadataStr = <<>>,
                  !.artifactMetadata = NoMeta,
                  !.artifactCodeBuffer = <<>>]
  ELSE sc

\* the attribute parsing with the body starting at the '>' itself
ParseAttributesAtGt(sc) ==
  LET skip == sc.openingTagIndex + (Len(OpenTag) - 1)
      afterOpening == SubstringFrom(sc.assistantContent, skip)
      gtIndex == IndexOf(afterOpening, <<">">>)
  IN  IF gtIndex = -1 THEN [sc |-> sc, emit |-> <<>>]
      ELSE LET meta == Trim(Substring(afterOpening, 0, gtIndex))
               idMatch == AttrMatch(meta, "identifier", TRUE)
               typeMatch == AttrMatch(meta, "type", TRUE)
               titleMatch == AttrMatch(meta, "title", FALSE)
               languageMatch == AttrMatch(meta, "language", TRUE)
               s1 == [sc EXCEPT !.metadataStr = meta,
                                !.codeStart = skip + gtIndex]
           IN  IF idMatch.found /\ typeMatch.found
               THEN LET title == IF titleMatch.found THEN titleMatch.val ELSE "Untitled Artifact"
                        language == IF languageMatch.found THEN languageMatch.val ELSE ""
                        initArtifact == MkArtifact(idMatch.val, artType(typeMatch.val, language),
                                                   title, StringContent(<<>>), <<>>)
                    IN  [sc |-> [s1 EXCEPT !.artifactMetadata =
                                   [id |-> idMatch.val, type |-> typeMatch.val,
                                    title |-> title, language |-> language]],
                         emit |-> <<Event("open", sc.openingTagIndex, idMatch.val, initArtifact, <<>>)>>]
               ELSE [sc |-> s1, emit |-> <<>>]

\* if (codeStart === -1) {...}: look for the '>' that ends the attributes.
\* The source skips 11 of the 12 characters of '<antArtifact'.
ParseAttributes(sc) ==
  LET skip == sc.openingTagIndex + (Len(OpenTag) - 1)
      afterOpening == SubstringFrom(sc.assistantContent, skip)
      gtIndex == IndexOf(afterOpening, <<">">>)
  IN  IF gtIndex = -1 THEN [sc |-> sc, emit |-> <<>>]
      ELSE LET meta == Trim(Substring(afterOpening, 0, gtIndex))
               idMatch == AttrMatch(meta, "identifier", TRUE)
               typeMatch == AttrMatch(meta, "type", TRUE)
               titleMatch == AttrMatch(meta, "title", FALSE)
               languageMatch == AttrMatch(meta, "language", TRUE)
               s1 == [sc EXCEPT !.metadataStr = meta,
                                !.codeStart = skip + gtIndex + 1]
           IN  IF idMatch.found /\ typeMatch.found
               THEN LET title == IF titleMatch.found THEN titleMatch.val ELSE "Untitled Artifact"
                        language == IF languageMatch.found THEN languageMatch.val ELSE ""
                        initArtifact == MkArtifact(idMatch.val, artType(typeMatch.val, language),
                                                   title, StringContent(<<>>), <<>>)
                    IN  [sc |-> [s1 EXCEPT !.artifactMetadata =
                                   [id |-> idMatch.val, type |-> typeMatch.val,
                                    title |-> title, language |-> language]],
                         emit |-> <<Event("open", sc.openingTagIndex, idMatch.val, initArtifact, <<>>)>>]
               ELSE [sc |-> s1, emit |-> <<>>]

\* if (artifactMetadata && codeStart !== -1) {...}
HandleBody(sc) ==
  LET fullCode == SubstringFrom(sc.assistantContent, sc.codeStart)
      closingIndex == IndexOf(fullCode, CloseTag)
      md == sc.artifactMetadata
  IN  IF closingIndex # -1
      THEN LET buf == Trim(Substring(fullCode, 0, closingIndex))
               completeArtifact == MkArtifact(md.id, artType(md.type, md.language), md.title,
                                              StringContent(buf), buf)
           IN  [sc |-> [sc EXCEPT !.insideArtifact = FALSE,
                                  !.codeStart = -1,
                                  !.artifactMetadata = NoMeta,
                                  !.artifactCodeBuffer = <<>>],
                emit |-> <<Event("complete", sc.openingTagIndex, md.id, completeArtifact, buf)>>]
      ELSE LET buf == Trim(fullCode)
           IN  [sc |-> [sc EXCEPT !.artifactCodeBuffer = buf],
                emit |-> <<Event("partial", sc.openingTagIndex, md.id, NoArtifact, buf)>>]

\* One text_delta event: the new locals, the events emitted in order, and
\* the display content written to the last message.
ProcessDelta(sc, frag) ==
  LET s0 == [sc EXCEPT !.assistantContent = @ \o frag]
      s1 == DetectOpen(s0)
      p == IF s1.insideArtifact /\ s1.codeStart = -1
           THEN ParseAttributes(s1) ELSE [sc |-> s1, emit |-> <<>>]
      b == IF p.sc.insideArtifact /\ p.sc.artifactMetadata # NoMeta /\ p.sc.codeStart # -1
           THEN HandleBody(p.sc) ELSE [sc |-> p.sc, emit |-> <<>>]
  IN  [sc |-> b.sc,
       emit |-> p.emit \o b.emit,
       display |-> IF b.sc.insideArtifact
                   THEN stripCodeBlocksAndArtifacts(b.sc.assistantContent)
                   ELSE b.sc.assistantContent]

(***************************************************************************)
(* detectArtifacts (offline extractor)                                     *)
(***************************************************************************)
\* s[j] with a 0-based offset; "" past the end
TokAt(s, j) == IF j >= 0 /\ j < Len(s) THEN s[j + 1] ELSE ""

\* the offset just past the run of whitespace (\s*) that starts at offset j
WsEnd(s, j) ==
  LET nw == {k \in j..(Len(s) - 1) : ~IsWs(s[k + 1])}
  IN  IF nw = {} THEN IF j > Len(s) THEN j ELSE Len(s) ELSE MinOf(nw)

IsAttr(tok, key) == AttrKey(tok) = key /\ AttrVal(tok) # ""

\* One match of antArtifactRegex starting at offset i, built up along the
\* regex: a1..a4 are the offsets of the identifier, type, language and title
\* attributes, c the offset of the close marker.
MatchFields(s, ok, a1, a2, a3, hasLang, a4, c) ==
  [ok |-> ok,
   identifier |-> AttrVal(TokAt(s, a1)),
   type |-> AttrVal(TokAt(s, a2)),
   language |-> IF hasLang THEN AttrVal(TokAt(s, a3)) ELSE "",
   title |-> AttrVal(TokAt(s, a4)),
   content |-> IF ok THEN Substring(s, a4 + 2, c) ELSE <<>>,
   end |-> c + Len(CloseTag)]

MatchClose(s, head, a1, a2, a3, hasLang, a4, c) ==
  MatchFields(s, head /\ c # -1, a1, a2, a3, hasLang, a4, c)

MatchHead(s, i, a1, a2, a3, hasLang, a4) ==
  MatchClose(s,
             /\ StartsAt(s, OpenTag, i)
             /\ a1 > i + 2 /\ IsAttr(TokAt(s, a1), "identifier")
             /\ a2 > a1 + 1 /\ IsAttr(TokAt(s, a2), "type")
             /\ (IF hasLang THEN a4 > a3 + 1 ELSE a4 > a2 + 1)
             /\ IsAttr(TokAt(s, a4), "title")
             /\ TokAt(s, a4 + 1) = ">",
             a1, a2, a3, hasLang, a4, IndexOfFrom(s, CloseTag, a4 + 2))

MatchTitle(s, i, a1, a2, a3, hasLang) ==
  MatchHead(s, i, a1, a2, a3, hasLang, IF hasLang THEN WsEnd(s, a3 + 1) ELSE a3)

MatchLanguage(s, i, a1, a2, a3) ==
  MatchTitle(s, i, a1, a2, a3, a3 > a2 + 1 /\ IsAttr(TokAt(s, a3), "language"))

MatchType(s, i, a1, a2) == MatchLanguage(s, i, a1, a2, WsEnd(s, a2 + 1))

MatchIdentifier(s, i, a1) == MatchType(s, i, a1, WsEnd(s, a1 + 1))

PrimaryMatch(s, i) == MatchIdentifier(s, i, WsEnd(s, i + 2))

\* JSON.stringify(value, null, 2) of a parsed value of the model
JSONStringify(val) == val

\* The body of the while loop over antArtifactRegex: the artifact pushed.
PrimaryArtifact(m) ==
  LET trimmed == Trim(m.content)
      j == JSONParse(trimmed)
      structured == m.type \in {"application/vnd.ant.spreadsheet", "application/vnd.ant.chart"}
      artifactType ==
        CASE m.type = "application/vnd.ant.code" ->
               IF m.language \in {"html", "javascript"} THEN "html" ELSE "react"
          [] m.type = "application/vnd.ant.spreadsheet" -> "excel"
          [] m.type = "application/vnd.ant.chart" -> "chart"
          [] m.type = "text/markdown" -> "markdown"
          [] OTHER -> "html"
  IN  IF structured /\ j.ok
      THEN MkArtifact(m.identifier, artifactType, m.title, ObjectContent(j.val), JSONStringify(j.val))
      ELSE MkArtifact(m.identifier, artifactType, m.title, StringContent(trimmed), trimmed)

RECURSIVE PrimaryScan(_)
PrimaryScan(s) ==
  LET c == {i \in 0..(Len(s) - 1) : PrimaryMatch(s, i).ok}
  IN  IF c = {} THEN <<>>
      ELSE LET m == PrimaryMatch(s, MinOf(c))
           IN  <<PrimaryArtifact(m)>> \o PrimaryScan(SubstringFrom(s, m.end))

\* Lexemes of the two older formats: the header of a legacy marker
\* (artifact:type:title after the fence), a fence language word, and a run
\* of 200 characters of code.
LegacyExcel == "artifact:excel:T"

LegacyHtml == "artifact:html:T"

LangWordHtml == "html"

LangWordPython == "python"

BigCode == "code200"

LegacyType(tok) == IF tok = LegacyExcel THEN "excel" ELSE "html"

IsWord(tok) == tok \in {LangWordHtml, LangWordPython}

\* the number of characters a lexeme stands for
CharLen(tok) ==
  CASE tok = BigCode -> 200
    [] tok = "antArtifact" -> 11
    [] tok = Fence -> 3
    [] tok = Placeholder -> 24
    [] tok \in {IdA, IdB, IdC} -> 14
    [] tok = TySheet -> 38
    [] tok = TyCode -> 31
    [] tok = TyChart -> 32
    [] tok = TyMarkdown -> 20
    [] tok = TyHtml -> 16
    [] tok = LangHtml -> 15
    [] tok = LangPython -> 17
    [] tok = TitleT -> 9
    [] tok = TitleEmpty -> 8
    [] tok \in {LegacyExcel, LegacyHtml} -> 16
    [] tok = LangWordHtml -> 4
    [] tok = LangWordPython -> 6
    [] OTHER -> 1

RECURSIVE StrLen(_)
StrLen(s) == IF s = <<>> THEN 0 ELSE CharLen(Head(s)) + StrLen(Tail(s))

\* One match of fallbackRegex starting at offset i: the offset of the closing
\* fence, or -1.
LegacyMatch(s, i) ==
  IF TokAt(s, i) = Fence /\ TokAt(s, i + 1) \in {LegacyExcel, LegacyHtml} /\ TokAt(s, i + 2) = "\n"
  THEN IndexOfFrom(s, <<Fence>>, i + 3)
  ELSE -1

\* The legacy loop.  JSON.parse(content) is not guarded there: raised = TRUE
\* when it throws, and detectArtifacts then returns nothing.
RECURSIVE LegacyScan(_)
LegacyScan(s) ==
  LET c == {i \in 0..(Len(s) - 1) : LegacyMatch(s, i) # -1}
  IN  IF c = {} THEN [raised |-> FALSE, artifacts |-> <<>>]
      ELSE LET i == MinOf(c)
               e == LegacyMatch(s, i)
               type == LegacyType(TokAt(s, i + 1))
               content == Substring(s, i + 3, e)
               j == JSONParse(content)
               rest == LegacyScan(SubstringFrom(s, e + 1))
           IN  IF type \in {"chart", "excel"} /\ ~j.ok
               THEN [raised |-> TRUE, artifacts |-> <<>>]
               ELSE [raised |-> rest.raised,
                     artifacts |-> <<MkArtifact("", type, "T",
                                       IF type \in {"chart", "excel"}
                                       THEN ObjectContent(j.val) ELSE StringContent(content),
                                       content)>> \o rest.artifacts]

\* One match of codeBlockRegex starting at offset i: the offset of the
\* closing fence (the first one at least 200 characters on), or -1.
FenceMatch(s, i) ==
  IF TokAt(s, i) = Fence /\ IsWord(TokAt(s, i + 1)) /\ TokAt(s, i + 2) = "\n"
  THEN LET c == {e \in (i + 3)..(Len(s) - 1) :
                   TokAt(s, e) = Fence /\ StrLen(Substring(s, i + 3, e)) >= 200}
       IN  IF c = {} THEN -1 ELSE MinOf(c)
  ELSE -1

RECURSIVE FenceScan(_)
FenceScan(s) ==
  LET c == {i \in 0..(Len(s) - 1) : FenceMatch(s, i) # -1}
  IN  IF c = {} THEN <<>>
      ELSE LET i == MinOf(c)
               e == FenceMatch(s, i)
               lang == TokAt(s, i + 1)
               code == Substring(s, i + 3, e)
               rest == FenceScan(SubstringFrom(s, e + 1))
           IN  IF lang \in {"html", "javascript", "jsx", "tsx"}
               THEN <<MkArtifact("", "html", lang, StringContent(code), code)>> \o rest
               ELSE rest

\* id: Date.now().toString() + Math.random(): a fresh identifier per artifact
WithFreshIds(arts, nonce) ==
  [k \in 1..Len(arts) |-> [arts[k] EXCEPT !.id = ToString(nonce + k)]]

\* detectArtifacts with its two "if (artifacts.length === 0)" guards dropped:
\* both fallbacks always run
detectArtifactsUnguarded(response, nonce) ==
  LET legacy == LegacyScan(response)
  IN  IF legacy.raised THEN [raised |-> TRUE, artifacts |-> <<>>]
      ELSE [raised |-> FALSE,
            artifacts |-> PrimaryScan(response)
                            \o WithFreshIds(legacy.artifacts \o FenceScan(response), nonce)]

\* [raised |-> the call threw, artifacts |-> the value returned otherwise]
detectArtifacts(response, nonce) ==
  LET primary == PrimaryScan(response)
      legacy == IF primary = <<>> THEN LegacyScan(response)
                ELSE [raised |-> FALSE, artifacts |-> <<>>]
      fences == IF primary = <<>> /\ ~legacy.raised /\ legacy.artifacts = <<>>
                THEN FenceScan(response) ELSE <<>>
  IN  IF legacy.raised THEN [raised |-> TRUE, artifacts |-> <<>>]
      ELSE [raised |-> FALSE,
            artifacts |-> primary \o WithFreshIds(legacy.artifacts \o fences, nonce)]

(***************************************************************************)
(* The event stream on the wire and the client's line parsing             *)
(***************************************************************************)
\* res.write('data: ' + JSON.stringify({type: 'text_delta', content}) + '\n\n'):
\* the bytes of one event, the JSON text in two parts
SseData(frag) ==
  <<[k |-> "data", frag |-> <<>>], [k |-> "json1", frag |-> frag],
    [k |-> "json2", frag |-> frag], [k |-> "nl", frag |-> <<>>], [k |-> "nl", frag |-> <<>>]>>

\* chunk.split('\n')
RECURSIVE SplitLines(_)
SplitLines(chunk) ==
  LET nl == {i \in 1..Len(chunk) : chunk[i].k = "nl"}
  IN  IF nl = {} THEN <<chunk>>
      ELSE <<SubSeq(chunk, 1, MinOf(nl) - 1)>>
             \o SplitLines(SubSeq(chunk, MinOf(nl) + 1, Len(chunk)))

\* if (line.startsWith('data: ')) { try { JSON.parse(line.slice(6)) ... }
\* catch { console.error } }: the content of the line's text_delta event, or
\* nothing when the line lacks the prefix or its JSON text is incomplete
LineEvents(line) ==
  IF /\ Len(line) = 3
     /\ line[1].k = "data" /\ line[2].k = "json1" /\ line[3].k = "json2"
     /\ line[2].frag = line[3].frag
  THEN <<line[2].frag>>
  ELSE <<>>

RECURSIVE ChunkEvents(_)
ChunkEvents(lines) ==
  IF lines = <<>> THEN <<>> ELSE LineEvents(Head(lines)) \o ChunkEvents(Tail(lines))

\* the events the read loop handles when the bytes of one event arrive with
\* a chunk boundary after the first cut of them (0: no boundary inside)
Received(bytes, cut) ==
  IF cut = 0 \/ cut >= Len(bytes)
  THEN ChunkEvents(SplitLines(bytes))
  ELSE ChunkEvents(SplitLines(SubSeq(bytes, 1, cut)))
         \o ChunkEvents(SplitLines(SubSeq(bytes, cut + 1, Len(bytes))))

\* where the network may cut the bytes of an event
NoCut == {0}

AnyCut == 0..(Len(SseData(<<>>)) - 1)

(***************************************************************************)
(* The texts the agent streams: one to MaxSegs segments                    *)
(***************************************************************************)
Block(idTok, attrs, body) ==
  OpenTag \o <<" ", idTok, " ">> \o attrs \o <<" ", TitleT, ">">> \o body \o CloseTag

SegNarr == <<"n">>

SegSheetA == Block(IdA, <<TySheet>>, <<"{", "}">>)

SegSheetA2 == Block(IdA, <<TySheet>>, <<"x">>)

SegCodeB == Block(IdB, <<TyCode, " ", LangHtml>>, <<"\n", "y">>)

\* an open marker without identifier, with its body and close marker
SegNoId == OpenTag \o <<" ", TySheet, ">", "x">> \o CloseTag

\* a block whose close marker never arrives
SegOpenC == OpenTag \o <<" ", IdC, " ", TySheet, " ", TitleT, ">", "z">>

\* a close marker on its own
SegClose == CloseTag

Segments == {SegNarr, SegSheetA, SegSheetA2, SegCodeB, SegNoId, SegOpenC, SegClose}

Pairs == {a \o b : a \in Segments, b \in Segments}

\* two blocks and what follows them
Triples == {SegSheetA \o SegCodeB \o c : c \in {SegNarr, SegSheetA2, SegOpenC}}

ScanTexts == Segments \cup Pairs \cup Triples

TurnTexts == {SegSheetA}

\* Texts for the offline extractor and the strip filter: an open marker with
\* the attributes given, in the order given
RECURSIVE Spaced(_)
Spaced(attrs) == IF attrs = <<>> THEN <<>> ELSE <<" ", Head(attrs)>> \o Spaced(Tail(attrs))

Marked(attrs, body) == OpenTag \o Spaced(attrs) \o <<">">> \o body \o CloseTag

SegCodePy == Marked(<<IdB, TyCode, LangPython, TitleT>>, <<"y">>)

SegChart == Marked(<<IdC, TyChart, TitleT>>, <<"{", "}">>)

SegChartBad == Marked(<<IdC, TyChart, TitleT>>, <<"x">>)

SegMarkdown == Marked(<<IdC, TyMarkdown, TitleT>>, <<"n">>)

SegHtml == Marked(<<IdC, TyHtml, TitleT>>, <<"y">>)

SegTitleEmpty == Marked(<<IdA, TySheet, TitleEmpty>>, <<"{", "}">>)

SegNoTitle == Marked(<<IdA, TySheet>>, <<"{", "}">>)

SegTypeFirst == Marked(<<TySheet, IdA, TitleT>>, <<"{", "}">>)

\* the older formats: a legacy marker and a large fenced code block
Fenced(header, body) == <<Fence, header, "\n">> \o body \o <<Fence>>

SegLegacyExcel == Fenced(LegacyExcel, <<"{", "}">>)

SegLegacyBad == Fenced(LegacyExcel, <<"x">>)

SegLegacyHtml == Fenced(LegacyHtml, <<"y">>)

SegFenceHtml == Fenced(LangWordHtml, <<BigCode>>)

SegFencePy == Fenced(LangWordPython, <<BigCode>>)

\* a small fenced block: below the 200 characters of the code-block regex
SegFenceSmall == Fenced(LangWordHtml, <<"y">>)

\* a close marker inside a fence, then a block that is never closed
SegFencedClose == <<Fence>> \o CloseTag \o <<Fence>> \o SegOpenC

\* a block standing between the '<' and the rest of another block
SegSplitMarker == <<"<">> \o SegSheetA \o Tail(SegCodeB)

SegNewlines == <<"n", "\n", "\n", "\n", "\n", "n", " ">>

DetectTexts ==
  {SegNarr, SegSheetA, SegSheetA2, SegCodeB, SegCodePy, SegChart, SegChartBad,
   SegMarkdown, SegHtml, SegTitleEmpty, SegNoTitle, SegTypeFirst,
   SegLegacyExcel, SegLegacyBad, SegLegacyHtml, SegFenceHtml, SegFencePy, SegFenceSmall,
   SegOpenC, SegFencedClose, SegSplitMarker, SegNewlines,
   SegSheetA \o SegCodeB, SegSheetA \o SegNarr \o SegChartBad \o SegCodePy,
   SegSheetA \o SegLegacyHtml \o SegFenceHtml, SegCodeB \o SegLegacyBad,
   SegLegacyHtml \o SegFenceHtml, SegLegacyExcel \o SegLegacyHtml,
   SegLegacyHtml \o SegLegacyBad, SegFencePy \o SegFenceHtml,
   SegClose \o SegOpenC, SegSheetA \o SegOpenC, SegFenceSmall \o SegOpenC}

\* Texts of consecutive turns: two blocks with one identifier
SeqTexts == {SegSheetA, SegSheetA2}

(***************************************************************************)
(* State                                                                   *)
(***************************************************************************)
VARIABLES
  turn,               \* per sendMessage call: its position, its locals, the stream it reads
  messages,           \* App: useState<Message[]>
  artifacts,          \* App: useState<Artifact[]>
  streamingArtifact,  \* App: useState<{artifact, code, isComplete} | null>
  isStreaming,        \* ConversationArea: useState(false)
  input,              \* ConversationArea: useState('')
  readerRef,          \* ConversationArea: readerRef.current (0 = null, else the turn read)
  timers,             \* turns whose setTimeout(() => setStreamingArtifact(null), 500) is pending
  nonce,              \* identifiers handed out so far by Date.now() + Math.random()
  isArtifactPanelClosed, \* App: the user has closed the artifact panel
  lim                 \* the inputs of the run: [turns, flight, grain, texts, cuts]

vars == <<turn, messages, artifacts, streamingArtifact, isStreaming, input, readerRef, timers, nonce,
          isArtifactPanelClosed, lim>>

Turns == 1..MaxTurns

\* streamingArtifact = null
Null == [isNull |-> TRUE, artifact |-> NoArtifact, code |-> <<>>, isComplete |-> FALSE]

Streaming(art, code, complete) ==
  [isNull |-> FALSE, artifact |-> art, code |-> code, isComplete |-> complete]

Message(role, content, t) ==
  [role |-> role, content |-> content, artifacts |-> <<>>, turn |-> t]

\* pc: idle -> fetching -> reading -> finished.  sp is what the server has
\* written last: stream (text deltas), tc (text_complete), done, error.
\* History of the scanner's events in the turn: lastEmit, the events of the
\* latest text_delta; opened and completed, the blocks (by the offset of
\* their open marker) that have had an open / a complete event;
\* lastComplete, the latest complete event; abandoned, set when the stream
\* of the turn ended with a block open and no block has been opened since.
NoEvent == [type |-> "none", at |-> -1, id |-> "", art |-> NoArtifact, code |-> <<>>]

IdleTurn ==
  [pc |-> "idle", text |-> <<>>, pos |-> 0, sp |-> "stream", sc |-> InitScanner,
   lastEmit |-> <<>>, opened |-> {}, completed |-> {}, lastComplete |-> NoEvent,
   abandoned |-> FALSE]

\* the scanner states of the design
Idle(sc) == ~sc.insideArtifact

AttributesPending(sc) == sc.insideArtifact /\ sc.codeStart = -1

BodyStreaming(sc) == sc.insideArtifact /\ sc.codeStart # -1 /\ sc.artifactMetadata # NoMeta

\* sendMessage has returned: its locals and its response are gone
FinishedTurn == [IdleTurn EXCEPT !.pc = "finished"]

\* the turn record once the stream of a turn that was reading in scanner
\* state sc has ended
EndedTurn(sc) ==
  [FinishedTurn EXCEPT !.abandoned = AttributesPending(sc) \/ BodyStreaming(sc)]

Ids(arts) == {arts[i].id : i \in 1..Len(arts)}

\* an update that overwrites the entry that has the identifier
AddCompleteReplacing(prev, a) ==
  IF a.id \in Ids(prev)
  THEN [i \in 1..Len(prev) |-> IF prev[i].id = a.id THEN a ELSE prev[i]]
  ELSE Append(prev, a)

\* setArtifacts((prev) => prev.some(a => a.id === id) ? prev : [...prev, completeArtifact])
AddComplete(prev, a) == IF a.id \in Ids(prev) THEN prev ELSE Append(prev, a)

\* setArtifacts((prev) => [...prev, ...detected.filter(a => !existingIds.has(a.id))])
AddDetected(prev, detected) ==
  prev \o SelectSeq(detected, LAMBDA a : a.id \notin Ids(prev))

\* updated[updated.length - 1].content = c
SetLastContent(msgs, c) == [msgs EXCEPT ![Len(msgs)].content = c]

\* updated[updated.length - 1].artifacts = as
SetLastArtifacts(msgs, as) == [msgs EXCEPT ![Len(msgs)].artifacts = as]

\* The React state updates one scanner event makes, on ui = [artifacts,
\* messages, streamingArtifact].
ApplyEvent(ui, e) ==
  CASE e.type = "open" ->
         [ui EXCEPT !.streamingArtifact = Streaming(e.art, <<>>, FALSE)]
    [] e.type = "partial" ->
         \* (prev) => ({...prev!, code}); spreading null leaves only code
         [ui EXCEPT !.streamingArtifact = [@ EXCEPT !.isNull = FALSE, !.code = e.code]]
    [] OTHER ->
         [artifacts |-> AddComplete(ui.artifacts, e.art),
          messages |-> SetLastArtifacts(ui.messages, <<e.art>>),
          streamingArtifact |-> Streaming(e.art, e.code, TRUE)]

RECURSIVE ApplyEvents(_, _)
ApplyEvents(ui, es) ==
  IF es = <<>> THEN ui ELSE ApplyEvents(ApplyEvent(ui, Head(es)), Tail(es))

Init ==
  /\ turn = [t \in Turns |-> IdleTurn]
  /\ messages = <<>>
  /\ artifacts = <<>>
  /\ streamingArtifact = Null
  /\ isStreaming = FALSE
  /\ input = ""
  /\ readerRef = 0
  /\ timers = {}
  /\ nonce = 0
  /\ isArtifactPanelClosed = FALSE
  /\ lim = [turns |-> 1, flight |-> MaxInFlight, grain |-> 1, texts |-> ScanTexts, cuts |-> NoCut]

\* App: const showArtifactPanel = !isArtifactPanelClosed && (...)
showArtifactPanel ==
  ~isArtifactPanelClosed /\ (Len(artifacts) > 0 \/ ~streamingArtifact.isNull)

\* App: useEffect(..., [artifacts.length, streamingArtifact]), run after the
\* render that follows a step.  written: the step has stored a new object in
\* streamingArtifact (an object always differs from the previous value).
AutoOpen(written) ==
  isArtifactPanelClosed' =
    IF /\ Len(artifacts') # Len(artifacts) \/ written \/ streamingArtifact' # streamingArtifact
       /\ Len(artifacts') > 0 \/ ~streamingArtifact'.isNull
    THEN FALSE
    ELSE isArtifactPanelClosed

(***************************************************************************)
(* Operations                                                              *)
(***************************************************************************)
\* onChange of the input box; the box is disabled while isStreaming
TypeInput ==
  /\ ~isStreaming
  /\ input = ""
  /\ input' = "q"
  /\ UNCHANGED <<turn, messages, artifacts, streamingArtifact, isStreaming, readerRef, timers, nonce,
               isArtifactPanelClosed, lim>>

\* sendMessage up to the await of fetch
SendMessage(t, txt) ==
  /\ t <= lim.turns
  /\ turn[t].pc = "idle"
  /\ \A u \in Turns : u < t => turn[u].pc # "idle"
  /\ Cardinality({u \in Turns : turn[u].pc \in {"fetching", "reading"}}) < lim.flight
  /\ input # "" /\ ~isStreaming
  /\ input' = ""
  /\ isStreaming' = TRUE
  /\ turn' = [turn EXCEPT ![t] = [IdleTurn EXCEPT !.pc = "fetching", !.text = txt]]
  /\ UNCHANGED <<messages, artifacts, streamingArtifact, readerRef, timers, nonce,
               isArtifactPanelClosed, lim>>

\* fetch resolved: the reader is taken, both messages are appended and the
\* scanner locals are declared
FetchResolve(t) ==
  /\ turn[t].pc = "fetching"
  /\ readerRef' = t
  /\ messages' = messages \o <<Message("user", <<"q">>, t), Message("assistant", <<>>, t)>>
  /\ turn' = [turn EXCEPT ![t].pc = "reading", ![t].sc = InitScanner]
  /\ UNCHANGED <<artifacts, streamingArtifact, isStreaming, input, timers, nonce,
               isArtifactPanelClosed, lim>>

\* fetch rejected: catch, then finally
FetchReject(t) ==
  /\ turn[t].pc = "fetching"
  /\ turn' = [turn EXCEPT ![t] = FinishedTurn]
  /\ isStreaming' = FALSE
  /\ streamingArtifact' = Null
  /\ UNCHANGED <<messages, artifacts, input, readerRef, timers, nonce, lim>>
  /\ AutoOpen(FALSE)

EventsOf(es, type) == SelectSeq(es, LAMBDA e : e.type = type)

AtOf(es) == {es[k].at : k \in 1..Len(es)}

\* a text_delta event carrying the next n lexemes of the text, written by
\* the server and read by the client in one chunk or across two
TextDelta(t, n) ==
  /\ turn[t].pc = "reading" /\ turn[t].sp = "stream"
  /\ n >= 1 /\ turn[t].pos + n <= Len(turn[t].text)
  /\ (turn[t].pos + n) % lim.grain = 0 \/ turn[t].pos + n = Len(turn[t].text)
  /\ \E cut \in lim.cuts :
     \E got \in {Received(SseData(SubSeq(turn[t].text, turn[t].pos + 1, turn[t].pos + n)), cut)} :
       IF got = <<>>
       THEN \* no line of the chunks parses: the event is lost
            /\ turn' = [turn EXCEPT ![t].pos = @ + n]
            /\ UNCHANGED <<artifacts, messages, streamingArtifact, isArtifactPanelClosed>>
       ELSE \E r \in {ProcessDelta(turn[t].sc, got[1])} :
            \E ui \in {ApplyEvents([artifacts |-> artifacts, messages |-> messages,
                                    streamingArtifact |-> streamingArtifact], r.emit)} :
              /\ turn' = [u \in Turns |->
                           IF u = t
                           THEN [turn[t] EXCEPT !.pos = @ + n,
                                                !.sc = r.sc,
                                                !.lastEmit = r.emit,
                                                !.opened = @ \cup AtOf(EventsOf(r.emit, "open")),
                                                !.completed = @ \cup AtOf(EventsOf(r.emit, "complete")),
                                                !.lastComplete =
                                                   LET c == EventsOf(r.emit, "complete")
                                                   IN  IF c = <<>> THEN @ ELSE c[Len(c)]]
                           ELSE IF EventsOf(r.emit, "open") # <<>>
                                THEN [turn[u] EXCEPT !.abandoned = FALSE]
                                ELSE turn[u]]
              /\ artifacts' = ui.artifacts
              /\ messages' = SetLastContent(ui.messages, r.display)
              /\ streamingArtifact' = ui.streamingArtifact
              /\ AutoOpen(r.emit # <<>>)
  /\ UNCHANGED <<isStreaming, input, readerRef, timers, nonce, lim>>

\* the text_complete event, written once the agent's iterator has ended
TextComplete(t) ==
  /\ turn[t].pc = "reading" /\ turn[t].sp = "stream"
  /\ turn[t].pos = Len(turn[t].text)
  /\ \E content \in {turn[t].text} :
     \E d \in {detectArtifacts(content, nonce)} :
     \E displayContent \in {stripCodeBlocksAndArtifacts(content)} :
         /\ turn' = [turn EXCEPT ![t].sp = "tc", ![t].sc.assistantContent = content]
         /\ IF d.raised
            THEN UNCHANGED <<artifacts, messages, streamingArtifact, nonce>>
            ELSE /\ artifacts' = AddDetected(artifacts, d.artifacts)
                 /\ messages' = IF d.artifacts # <<>>
                                THEN SetLastArtifacts(SetLastContent(messages, displayContent), d.artifacts)
                                ELSE SetLastContent(messages, displayContent)
                 /\ streamingArtifact' = Null
                 /\ nonce' = nonce + Len(d.artifacts)
  /\ UNCHANGED <<isStreaming, input, readerRef, timers, lim>>
  /\ AutoOpen(FALSE)

\* the done event
DoneEvent(t) ==
  /\ turn[t].pc = "reading"
  /\ \/ turn[t].sp = "tc"
     \/ turn[t].sp = "stream" /\ turn[t].pos = Len(turn[t].text)
  /\ \E d \in {detectArtifacts(turn[t].sc.assistantContent, nonce)} :
         /\ turn' = [turn EXCEPT ![t].sp = "done"]
         /\ IF d.raised
            THEN UNCHANGED <<artifacts, messages, streamingArtifact, nonce>>
            ELSE /\ artifacts' = AddDetected(artifacts, d.artifacts)
                 /\ messages' = IF d.artifacts # <<>>
                                THEN SetLastArtifacts(messages, d.artifacts)
                                ELSE messages
                 /\ streamingArtifact' = Null
                 /\ nonce' = nonce + Len(d.artifacts)
  /\ UNCHANGED <<isStreaming, input, readerRef, timers, lim>>
  /\ AutoOpen(FALSE)

\* the server's catch writes an error event; no branch of the client reads it
ErrorEvent(t) ==
  /\ turn[t].pc = "reading" /\ turn[t].sp = "stream"
  /\ turn' = [turn EXCEPT ![t].sp = "error"]
  /\ UNCHANGED <<messages, artifacts, streamingArtifact, isStreaming, input, readerRef, timers, nonce,
               isArtifactPanelClosed, lim>>

\* read() returns done after res.end(): break, setTimeout, finally
ReadEnd(t) ==
  /\ turn[t].pc = "reading" /\ turn[t].sp \in {"done", "error"}
  /\ turn' = [turn EXCEPT ![t] = EndedTurn(turn[t].sc)]
  /\ timers' = timers \cup {t}
  /\ isStreaming' = FALSE
  /\ streamingArtifact' = Null
  /\ UNCHANGED <<messages, artifacts, input, readerRef, nonce, lim>>
  /\ AutoOpen(FALSE)

\* read() rejects (network failure): catch, finally
ReadError(t) ==
  /\ turn[t].pc = "reading"
  /\ turn' = [turn EXCEPT ![t] = EndedTurn(turn[t].sc)]
  /\ isStreaming' = FALSE
  /\ streamingArtifact' = Null
  /\ UNCHANGED <<messages, artifacts, input, readerRef, timers, nonce, lim>>
  /\ AutoOpen(FALSE)

\* stopStreaming; a cancelled reader makes the pending read() of its turn
\* return done, so that turn leaves its loop: setTimeout, finally
StopStreaming ==
  /\ isStreaming
  /\ isStreaming' = FALSE
  /\ readerRef' = 0
  /\ IF readerRef # 0 /\ turn[readerRef].pc = "reading"
     THEN /\ turn' = [turn EXCEPT ![readerRef] = EndedTurn(turn[readerRef].sc)]
          /\ timers' = timers \cup {readerRef}
          /\ streamingArtifact' = Null
     ELSE UNCHANGED <<turn, timers, streamingArtifact>>
  /\ UNCHANGED <<messages, artifacts, input, nonce, lim>>
  /\ AutoOpen(FALSE)

\* the 500 ms timeout set after the read loop
TimerFire(t) ==
  /\ t \in timers
  /\ timers' = timers \ {t}
  /\ streamingArtifact' = Null
  /\ UNCHANGED <<turn, messages, artifacts, isStreaming, input, readerRef, nonce, lim>>
  /\ AutoOpen(FALSE)

\* App: onClose of the artifact panel, which is rendered when showArtifactPanel
ClosePanel ==
  /\ showArtifactPanel
  /\ isArtifactPanelClosed' = TRUE
  /\ UNCHANGED <<turn, messages, artifacts, streamingArtifact, isStreaming, input, readerRef, timers,
                 nonce, lim>>

\* App: onReopenPanel; the button is rendered when showReopenButton
ReopenPanel ==
  /\ isArtifactPanelClosed /\ Len(artifacts) > 0
  /\ isArtifactPanelClosed' = FALSE
  /\ UNCHANGED <<turn, messages, artifacts, streamingArtifact, isStreaming, input, readerRef, timers,
                 nonce, lim>>

Next ==
  \/ TypeInput
  \/ \E t \in Turns : \E txt \in lim.texts : SendMessage(t, txt)
  \/ \E t \in Turns : FetchResolve(t)
  \/ \E t \in Turns : FetchReject(t)
  \/ \E t \in Turns : \E n \in 1..Len(turn[t].text) : TextDelta(t, n)
  \/ \E t \in Turns : TextComplete(t)
  \/ \E t \in Turns : DoneEvent(t)
  \/ \E t \in Turns : ErrorEvent(t)
  \/ \E t \in Turns : ReadEnd(t)
  \/ \E t \in Turns : ReadError(t)
  \/ StopStreaming
  \/ \E t \in Turns : TimerFire(t)
  \/ ClosePanel
  \/ ReopenPanel

Spec == Init /\ [][Next]_vars

\* Several turns, which overlap when the user stops one during its fetch and
\* sends again; shorter texts, coarser fragments.
InitTurns ==
  /\ turn = [t \in Turns |-> IdleTurn]
  /\ messages = <<>>
  /\ artifacts = <<>>
  /\ streamingArtifact = Null
  /\ isStreaming = FALSE
  /\ input = ""
  /\ readerRef = 0
  /\ timers = {}
  /\ nonce = 0
  /\ isArtifactPanelClosed = FALSE
  /\ lim = [turns |-> MaxTurns, flight |-> MaxInFlight, grain |-> TurnGrain, texts |-> TurnTexts,
            cuts |-> NoCut]

SpecTurns == InitTurns /\ [][Next]_vars

\* One turn whose text arrives as a single text_delta: the inputs of
\* detectArtifacts (text_complete, done) and of stripCodeBlocksAndArtifacts.
InitDetect ==
  /\ turn = [t \in Turns |-> IdleTurn]
  /\ messages = <<>>
  /\ artifacts = <<>>
  /\ streamingArtifact = Null
  /\ isStreaming = FALSE
  /\ input = ""
  /\ readerRef = 0
  /\ timers = {}
  /\ nonce = 0
  /\ isArtifactPanelClosed = FALSE
  /\ lim = [turns |-> 1, flight |-> MaxInFlight,
            grain |-> MaxOf({Len(x) : x \in DetectTexts}), texts |-> DetectTexts,
            cuts |-> NoCut]

SpecDetect == InitDetect /\ [][Next]_vars

\* Turns one after the other, each text in one text_delta.
InitSeq ==
  /\ turn = [t \in Turns |-> IdleTurn]
  /\ messages = <<>>
  /\ artifacts = <<>>
  /\ streamingArtifact = Null
  /\ isStreaming = FALSE
  /\ input = ""
  /\ readerRef = 0
  /\ timers = {}
  /\ nonce = 0
  /\ isArtifactPanelClosed = FALSE
  /\ lim = [turns |-> MaxTurns, flight |-> 1,
            grain |-> MaxOf({Len(x) : x \in SeqTexts}), texts |-> SeqTexts,
            cuts |-> NoCut]

SpecSeq == InitSeq /\ [][Next]_vars

\* One turn whose events the network may cut anywhere.
WireTexts == {SegNarr \o SegNarr, SegSheetA, SegOpenC \o SegNarr}

InitWire ==
  /\ turn = [t \in Turns |-> IdleTurn]
  /\ messages = <<>>
  /\ artifacts = <<>>
  /\ streamingArtifact = Null
  /\ isStreaming = FALSE
  /\ input = ""
  /\ readerRef = 0
  /\ timers = {}
  /\ nonce = 0
  /\ isArtifactPanelClosed = FALSE
  /\ lim = [turns |-> 1, flight |-> 1, grain |-> TurnGrain, texts |-> WireTexts,
            cuts |-> AnyCut]

SpecWire == InitWire /\ [][Next]_vars

(***************************************************************************)
(* Vocabulary of the properties                                            *)
(***************************************************************************)
Reading(t) == turn[t].pc = "reading"

\* a step in which turn t handles a text_delta event
DeltaStep(t) ==
  /\ Reading(t) /\ turn'[t].pc = "reading" /\ turn'[t].pos > turn[t].pos
  /\ turn'[t].sc.assistantContent # turn[t].sc.assistantContent

\* a step in which the stream of turn t ends: done or error written and the
\* reader finished, the read failed, or the user cancelled the reader
EndStep(t) == Reading(t) /\ turn'[t].pc = "finished"

AllDelivered(t) == Reading(t) /\ turn[t].pos = Len(turn[t].text)

\* the offsets of the open markers of a text
OpenOffsets(s) == {i \in 0..(Len(s) - 1) : StartsAt(s, OpenTag, i)}

\* where the region of the open marker at offset i ends: past the first close
\* marker after it, or at the end of the text
MarkerEnd(s, i) ==
  LET c == IndexOfFrom(s, CloseTag, i)
  IN  IF c = -1 THEN Len(s) ELSE c + Len(CloseTag)

\* lexeme k lies in the region of some open marker
InsideMarker(s, k) == \E i \in OpenOffsets(s) : i <= k /\ k < MarkerEnd(s, i)

\* the open marker at offset m has a closed attribute section that lacks
\* identifier or type
Malformed(s, m) ==
  /\ StartsAt(s, OpenTag, m)
  /\ LET g == IndexOfFrom(s, <<">">>, m + Len(OpenTag))
     IN  /\ g # -1
         /\ LET meta == Substring(s, m + Len(OpenTag), g)
            IN  ~(AttrMatch(meta, "identifier", TRUE).found /\ AttrMatch(meta, "type", TRUE).found)

\* the offsets of the well-formed blocks of a text, left to right, no overlap
RECURSIVE BlockOffsetsFrom(_, _)
BlockOffsetsFrom(s, from) ==
  LET c == {i \in from..(Len(s) - 1) : PrimaryMatch(s, i).ok}
  IN  IF c = {} THEN {}
      ELSE {MinOf(c)} \cup BlockOffsetsFrom(s, PrimaryMatch(s, MinOf(c)).end)

BlockOffsets(s) == BlockOffsetsFrom(s, 0)

\* text_complete or done has run detectArtifacts on the text of turn t
Detected(t) == Reading(t) /\ turn[t].sp \in {"tc", "done"}

\* the assistant message turn t created
AssistantIn(msgs, t) ==
  LET c == {k \in 1..Len(msgs) : msgs[k].turn = t /\ msgs[k].role = "assistant"}
  IN  msgs[MinOf(c)]

AssistantOf(t) == AssistantIn(messages, t)

(***************************************************************************)
(* Properties of the incremental scanner                                   *)
(***************************************************************************)

\* C1: the events of a block come in the order open, partial*, complete: an
\* open is the block's first event, a partial or a complete follows the
\* block's open, and no open or partial of a block follows its complete.
C1_EventOrder ==
  [][\A t \in Turns : DeltaStep(t) =>
       \A k \in 1..Len(turn'[t].lastEmit) :
         LET e == turn'[t].lastEmit[k]
         IN  /\ e.type \in {"open", "partial"} => e.at \notin turn[t].completed
             /\ e.type = "open" => e.at \notin turn[t].opened
             /\ e.type \in {"partial", "complete"} => e.at \in turn'[t].opened]_vars

\* C2: a block whose close marker has arrived gets exactly one complete
\* event: it has one, and no later text_delta emits another.
C2_OneComplete ==
  /\ [](\A t \in Turns : Reading(t) =>
          \A o \in turn[t].opened :
            IndexOfFrom(turn[t].sc.assistantContent, CloseTag, o) # -1 => o \in turn[t].completed)
  /\ [][\A t \in Turns : DeltaStep(t) =>
          \A k \in 1..Len(turn'[t].lastEmit) :
            turn'[t].lastEmit[k].type = "complete" =>
              turn'[t].lastEmit[k].at \notin turn[t].completed]_vars

\* C3: a fragment that lies wholly outside the region of every open marker
\* makes the scanner emit nothing.
C3_SilentOutside ==
  [][\A t \in Turns :
       (/\ DeltaStep(t)
        /\ \A k \in turn[t].pos..(turn'[t].pos - 1) : ~InsideMarker(turn[t].text, k))
       => turn'[t].lastEmit = <<>>]_vars

\* the complete event of feeding a text as one fragment (NoArtifact if none)
SingleFragmentComplete(text) ==
  LET c == EventsOf(ProcessDelta(InitScanner, text).emit, "complete")
  IN  IF c = <<>> THEN NoArtifact ELSE c[Len(c)].art

\* C4: once the whole text is delivered, in whatever fragments, the latest
\* complete event carries the payload that feeding the text as a single
\* fragment gives.
C4_SplitInvariant ==
  \A t \in Turns : AllDelivered(t) =>
    turn[t].lastComplete.art = SingleFragmentComplete(turn[t].text)

\* C5: after the '>' of an attribute section without identifier or type the
\* scanner is Idle again, and a well-formed block that follows the rejected
\* marker has had its open and its complete event once the text is delivered.
C5_RearmAfterMalformed ==
  \A t \in Turns : Reading(t) =>
    /\ (turn[t].sc.codeStart # -1 /\ turn[t].sc.artifactMetadata = NoMeta) => Idle(turn[t].sc)
    /\ AllDelivered(t) =>
         \A o \in BlockOffsets(turn[t].text) :
           (\E m \in 0..(o - 1) : Malformed(turn[t].text, m)) =>
             o \in turn[t].opened /\ o \in turn[t].completed

\* C6: right after a complete event all per-block state is cleared, and a
\* well-formed block that follows a completed one and whose close marker
\* arrives in a later fragment gets its open event and a complete event with
\* its own identifier, title and body.
C6_NextBlockDetected ==
  /\ [](\A t \in Turns :
          (Reading(t) /\ turn[t].lastEmit # <<>>
             /\ turn[t].lastEmit[Len(turn[t].lastEmit)].type = "complete") =>
            /\ ~turn[t].sc.insideArtifact
            /\ turn[t].sc.codeStart = -1
            /\ turn[t].sc.artifactMetadata = NoMeta
            /\ turn[t].sc.artifactCodeBuffer = <<>>)
  /\ [][\A t \in Turns : DeltaStep(t) =>
          \A o \in BlockOffsets(turn[t].text) :
            LET m == PrimaryMatch(turn[t].text, o)
            IN  (/\ \E c \in turn[t].completed : c < o
                 /\ turn[t].pos < m.end /\ m.end <= turn'[t].pos)
                => /\ o \in turn'[t].opened
                   /\ \E k \in 1..Len(turn'[t].lastEmit) :
                        LET e == turn'[t].lastEmit[k]
                        IN  /\ e.type = "complete" /\ e.at = o
                            /\ e.art.id = m.identifier
                            /\ e.art.title = m.title
                            /\ e.art.code = Trim(m.content)]_vars

\* C7: the artifact list never holds two artifacts with one identifier, and
\* when the text of the turn holds two blocks with the same identifier the
\* stored artifact has the body of the first of them.
C7_FirstOccurrenceWins ==
  /\ \A i, j \in 1..Len(artifacts) : i # j => artifacts[i].id # artifacts[j].id
  /\ \A t \in Turns : Reading(t) =>
       \A o1, o2 \in BlockOffsets(turn[t].text) :
         LET m1 == PrimaryMatch(turn[t].text, o1)
             m2 == PrimaryMatch(turn[t].text, o2)
         IN  (o1 < o2 /\ m1.identifier = m2.identifier) =>
               \A i \in 1..Len(artifacts) :
                 artifacts[i].id = m1.identifier => artifacts[i].code = Trim(m1.content)

\* C8: when the stream ends while a block is open, the block has had no
\* complete event, no artifact has its identifier, and the text displayed
\* for the assistant message (the render strips the stored content) holds
\* neither the open marker nor the body received so far.
C8_AbandonedBlock ==
  [][\A t \in Turns :
       (EndStep(t) /\ (AttributesPending(turn[t].sc) \/ BodyStreaming(turn[t].sc))) =>
         /\ turn[t].sc.openingTagIndex \notin turn[t].completed
         /\ BodyStreaming(turn[t].sc) => turn[t].sc.artifactMetadata.id \notin Ids(artifacts')
         /\ LET shown == stripCodeBlocksAndArtifacts(AssistantIn(messages', t).content)
            IN  /\ ~Includes(shown, OpenTag)
                /\ turn[t].sc.artifactCodeBuffer # <<>> =>
                     ~Includes(shown, turn[t].sc.artifactCodeBuffer)]_vars

\* C9: when the stream of a turn has ended while its scanner was in
\* AttributesPending or BodyStreaming, the streaming preview is null at the
\* end and stays null as long as no turn has opened a block since.
C9_PreviewCleared ==
  \A t \in Turns : turn[t].abandoned => streamingArtifact = Null

\* C10: the complete event of a spreadsheet block carries the parsed object
\* as content when its trimmed body is valid JSON, and the raw trimmed text
\* as content and code only when it is not.
C10_ParsedContent ==
  \A t \in Turns : Reading(t) =>
    \A k \in 1..Len(turn[t].lastEmit) :
      LET e == turn[t].lastEmit[k]
      IN  (e.type = "complete" /\ e.art.type = "excel") =>
            IF JSONParse(e.code).ok
            THEN e.art.content = ObjectContent(JSONParse(e.code).val)
            ELSE e.art.content = StringContent(e.code) /\ e.art.code = e.code

(***************************************************************************)
(* Properties of the kind mapping and the attributes                       *)
(***************************************************************************)
\* C11: the scanner (open and complete events) and the offline extractor map
\* the type of a block to its kind by the substring rules, in this order:
\* 'spreadsheet' gives excel; 'code' with language html or javascript gives
\* html; 'html' gives html; 'chart' gives chart; anything else gives a
\* generic or markdown text kind.
C11_KindMapping ==
  \A t \in Turns : Reading(t) =>
    \A o \in BlockOffsets(turn[t].text) :
      LET m == PrimaryMatch(turn[t].text, o)
          kinds == IF TypeIncludes(m.type, "spreadsheet") THEN {"excel"}
                   ELSE IF TypeIncludes(m.type, "code") /\ m.language \in {"html", "javascript"}
                        THEN {"html"}
                   ELSE IF TypeIncludes(m.type, "html") THEN {"html"}
                   ELSE IF TypeIncludes(m.type, "chart") THEN {"chart"}
                   ELSE {"text", "markdown"}
      IN  /\ Detected(t) => PrimaryArtifact(m).type \in kinds
          /\ \A k \in 1..Len(turn[t].lastEmit) :
               (turn[t].lastEmit[k].type \in {"open", "complete"} /\ turn[t].lastEmit[k].at = o)
                 => turn[t].lastEmit[k].art.type \in kinds

\* the attribute section of the open marker at offset o: the lexemes between
\* the marker and the first '>' after it
AttributesAt(s, o) == Substring(s, o + Len(OpenTag), IndexOfFrom(s, <<">">>, o))

\* C12: a block whose open marker has identifier and type carries the
\* placeholder 'Untitled Artifact' as title when the title attribute is
\* missing or empty, and the attribute's value otherwise: in the scanner's
\* open and complete events, and in what detectArtifacts returns for it.
C12_TitleDefault ==
  \A t \in Turns : Reading(t) =>
    \A o \in OpenOffsets(turn[t].text) :
      LET attrs == AttributesAt(turn[t].text, o)
          given == AttrMatch(attrs, "title", TRUE)
          title == IF given.found THEN given.val ELSE "Untitled Artifact"
          id == AttrMatch(attrs, "identifier", TRUE).val
          found == detectArtifacts(turn[t].text, nonce).artifacts
      IN  /\ \A k \in 1..Len(turn[t].lastEmit) :
               (turn[t].lastEmit[k].type \in {"open", "complete"} /\ turn[t].lastEmit[k].at = o)
                 => turn[t].lastEmit[k].art.title = title
          /\ Detected(t) =>
               \A i \in 1..Len(found) : found[i].id = id => found[i].title = title

(***************************************************************************)
(* Properties of detectArtifacts                                           *)
(***************************************************************************)
\* the open marker at offset o starts a well-formed block: its attribute
\* section is closed and has identifier and type, in whatever order, and a
\* close marker follows
WellFormedAt(s, o) ==
  /\ StartsAt(s, OpenTag, o)
  /\ IndexOfFrom(s, <<">">>, o) # -1
  /\ ~Malformed(s, o)
  /\ IndexOfFrom(s, CloseTag, IndexOfFrom(s, <<">">>, o)) # -1

\* the body of the well-formed block at offset o
BodyAt(s, o) ==
  Substring(s, IndexOfFrom(s, <<">">>, o) + 1,
            IndexOfFrom(s, CloseTag, IndexOfFrom(s, <<">">>, o)))

\* C13: for a text whose open markers are N >= 1 well-formed blocks, none
\* inside another, detectArtifacts returns N artifacts in document order,
\* each with the identifier and the title of its block's attributes and with
\* the block's body.
C13_ExtractsEveryBlock ==
  \A t \in Turns : Detected(t) =>
    LET s == turn[t].text
        blocks == OpenOffsets(s)
        d == detectArtifacts(s, nonce)
    IN  (/\ blocks # {}
         /\ \A o \in blocks : WellFormedAt(s, o)
         /\ \A o, p \in blocks : o < p => MarkerEnd(s, o) <= p)
        => /\ ~d.raised
           /\ Len(d.artifacts) = Cardinality(blocks)
           /\ \A o \in blocks :
                LET i == Cardinality({p \in blocks : p < o}) + 1
                    attrs == AttributesAt(s, o)
                    title == AttrMatch(attrs, "title", TRUE)
                IN  /\ d.artifacts[i].id = AttrMatch(attrs, "identifier", TRUE).val
                    /\ title.found => d.artifacts[i].title = title.val
                    /\ SelectSeq(d.artifacts[i].code, LAMBDA c : ~IsWs(c))
                         = SelectSeq(BodyAt(s, o), LAMBDA c : ~IsWs(c))

\* C14: when the text holds a primary block, detectArtifacts returns the
\* primary blocks only, one artifact per block and each under a block's
\* identifier; an artifact of the code-fence fallback is returned only when
\* the text holds neither a primary block nor a legacy marker.
C14_FallbackPriority ==
  \A t \in Turns : Detected(t) =>
    LET s == turn[t].text
        d == detectArtifacts(s, nonce)
        blocks == BlockOffsets(s)
        hasLegacy == \E i \in 0..(Len(s) - 1) : LegacyMatch(s, i) # -1
    IN  /\ blocks # {} =>
             /\ ~d.raised
             /\ Len(d.artifacts) = Cardinality(blocks)
             /\ \A i \in 1..Len(d.artifacts) :
                  d.artifacts[i].id \in {PrimaryMatch(s, o).identifier : o \in blocks}
        /\ (\E i \in 1..Len(d.artifacts) : IsWord(d.artifacts[i].title))
             => blocks = {} /\ ~hasLegacy

\* reached: detectArtifacts has run on a text with a primary block, a legacy
\* marker and a large code fence, and the message got the primary block only
C14_Witness ==
  \E t \in Turns :
    /\ Detected(t)
    /\ BlockOffsets(turn[t].text) # {}
    /\ \E i \in 0..(Len(turn[t].text) - 1) : LegacyMatch(turn[t].text, i) # -1
    /\ \E i \in 0..(Len(turn[t].text) - 1) : FenceMatch(turn[t].text, i) # -1
    /\ Len(AssistantOf(t).artifacts) = 1

\* C15: detectArtifacts never raises, and a spreadsheet or chart block whose
\* body is not valid JSON, found by the primary scan or by the legacy
\* fallback, is returned with the raw string as content and as code.
C15_JsonFailureKept ==
  \A t \in Turns : Detected(t) =>
    LET s == turn[t].text
        d == detectArtifacts(s, nonce)
        blocks == BlockOffsets(s)
    IN  /\ ~d.raised
        /\ \A o \in blocks :
             LET m == PrimaryMatch(s, o)
                 raw == Trim(m.content)
             IN  (m.type \in {"application/vnd.ant.spreadsheet", "application/vnd.ant.chart"}
                    /\ ~JSONParse(raw).ok)
                 => \E i \in 1..Len(d.artifacts) :
                      /\ d.artifacts[i].id = m.identifier
                      /\ d.artifacts[i].content = StringContent(raw)
                      /\ d.artifacts[i].code = raw
        /\ blocks = {} =>
             \A i \in 0..(Len(s) - 1) :
               LET e == LegacyMatch(s, i)
                   raw == Substring(s, i + 3, e)
               IN  (e # -1 /\ LegacyType(TokAt(s, i + 1)) \in {"excel", "chart"}
                      /\ ~JSONParse(raw).ok)
                   => \E k \in 1..Len(d.artifacts) :
                        /\ d.artifacts[k].content = StringContent(raw)
                        /\ d.artifacts[k].code = raw

\* C16: stripCodeBlocksAndArtifacts is idempotent: filtering the filtered
\* text of a response changes nothing.
C16_StripIdempotent ==
  \A t \in Turns : AllDelivered(t) =>
    LET once == stripCodeBlocksAndArtifacts(turn[t].text)
    IN  stripCodeBlocksAndArtifacts(once) = once

\* the offsets of the open markers of a text that no close marker follows
UnterminatedOffsets(s) ==
  {o \in OpenOffsets(s) : IndexOfFrom(s, CloseTag, o) = -1}

\* C17: when a text holds an open marker that no close marker follows, the
\* filter removes everything from the first such marker to the end of the
\* text, whatever precedes it: the result is the filtered text before the
\* marker.
C17_UnterminatedRemoved ==
  \A t \in Turns : AllDelivered(t) =>
    LET s == turn[t].text
        u == UnterminatedOffsets(s)
    IN  u # {} =>
          LET o == CHOOSE x \in u : \A y \in u : x <= y
          IN  /\ ~Includes(stripCodeBlocksAndArtifacts(s), OpenTag)
              /\ stripCodeBlocksAndArtifacts(s)
                   = stripCodeBlocksAndArtifacts(Substring(s, 0, o))

\* C18: after every text_delta the content stored for the streaming assistant
\* message is the filtered cumulative text, whatever state the scanner is in.
C18_DisplayIsStripped ==
  [][\A t \in Turns : DeltaStep(t) =>
       AssistantIn(messages', t).content
         = stripCodeBlocksAndArtifacts(turn'[t].sc.assistantContent)]_vars

\* C19: while a block is open the body of a partial event is at least as long
\* as the body of the block's previous partial event, and at most one block
\* of a turn is open (has had its open event and not its complete event).
C19_OpenBlockGrows ==
  /\ [](\A t \in Turns : Reading(t) =>
          Cardinality(turn[t].opened \ turn[t].completed) <= 1)
  /\ [][\A t \in Turns : DeltaStep(t) =>
          \A j \in 1..Len(turn[t].lastEmit), k \in 1..Len(turn'[t].lastEmit) :
            LET e == turn[t].lastEmit[j]
                f == turn'[t].lastEmit[k]
            IN  (e.type = "partial" /\ f.type = "partial" /\ e.at = f.at)
                => Len(f.code) >= Len(e.code)]_vars

C19_Witness ==
  \E t \in Turns :
    /\ Reading(t)
    /\ BodyStreaming(turn[t].sc)
    /\ Cardinality(turn[t].opened) = 2
    /\ turn[t].opened \ turn[t].completed = {turn[t].sc.openingTagIndex}
    /\ \E k \in 1..Len(turn[t].lastEmit) :
         /\ turn[t].lastEmit[k].type = "partial"
         /\ Len(turn[t].lastEmit[k].code) >= 2

\* C20: the artifact list is append-only and its entries are immutable: no
\* step, of the turn that added an artifact or of a later one, removes or
\* changes an entry the list already has.
C20_ArtifactsAppendOnly ==
  [][/\ Len(artifacts') >= Len(artifacts)
     /\ SubSeq(artifacts', 1, Len(artifacts)) = artifacts]_vars

C20_Witness ==
  \E t \in Turns :
    /\ Detected(t)
    /\ turn[t].lastComplete.type = "complete"
    /\ \E i \in 1..Len(artifacts) :
         /\ artifacts[i].id = turn[t].lastComplete.id
         /\ artifacts[i].code # turn[t].lastComplete.code

(***************************************************************************)
(* Properties of failures, of the panel and of the transport               *)
(***************************************************************************)
\* a step in which turn t fails at transport level: its fetch rejects, its
\* read rejects, or its stream ends after the server's error event
FailStep(t) ==
  \/ turn[t].pc = "fetching" /\ turn'[t].pc = "finished"
  \/ EndStep(t) /\ turn[t].sp = "error"
  \/ EndStep(t) /\ timers' = timers /\ readerRef' = readerRef

\* the conversation shows an error for turn t: a message of the turn that is
\* neither the user's nor the assistant's text, or whose content names an error
ErrorShown(msgs, t) ==
  \E k \in 1..Len(msgs) :
    /\ msgs[k].turn = t
    /\ \/ msgs[k].role \notin {"user", "assistant"}
       \/ Includes(msgs[k].content, <<"Error">>)

\* C21: when a turn fails at transport level, an error indication for the
\* turn is visible in the conversation.
C21_FailureReported ==
  [][\A t \in Turns : FailStep(t) => ErrorShown(messages', t)]_vars

\* the open marker at offset m has a closed attribute section in which no
\* lexeme is an identifier attribute
NoIdentifierAt(s, m) ==
  /\ StartsAt(s, OpenTag, m)
  /\ LET g == IndexOfFrom(s, <<">">>, m + Len(OpenTag))
     IN  /\ g # -1
         /\ \A k \in (m + Len(OpenTag) + 1)..g : AttrKey(s[k]) # "identifier"

\* C22: an open marker without identifier attribute has no scanner event,
\* whatever follows it and however the text is fragmented, and gives no
\* artifact in detectArtifacts: every artifact returned has an identifier, and
\* there are no more artifacts than open markers with an identifier.
C22_NoIdentifierIgnored ==
  /\ [][\A t \in Turns : DeltaStep(t) =>
          \A k \in 1..Len(turn'[t].lastEmit) :
            ~NoIdentifierAt(turn[t].text, turn'[t].lastEmit[k].at)]_vars
  /\ [](\A t \in Turns : Detected(t) =>
          LET s == turn[t].text
              d == detectArtifacts(s, nonce)
          IN  /\ \A i \in 1..Len(d.artifacts) : d.artifacts[i].id # ""
              /\ Len(d.artifacts)
                   <= Cardinality({o \in OpenOffsets(s) : ~NoIdentifierAt(s, o)}))

C22_Witness ==
  \E t \in Turns :
    /\ Detected(t)
    /\ \E m \in OpenOffsets(turn[t].text) :
         /\ NoIdentifierAt(turn[t].text, m)
         /\ \E o \in turn[t].completed : o > m
    /\ Len(AssistantOf(t).artifacts) = 1

\* C23: a recorded body start is one past the first '>' that follows the
\* '<antArtifact' of the recorded open marker in the cumulative text, and it
\* stays the same while the block is open.
C23_BodyStart ==
  /\ [](\A t \in Turns : (Reading(t) /\ turn[t].sc.codeStart # -1) =>
          LET g == IndexOfFrom(turn[t].sc.assistantContent, <<">">>,
                               turn[t].sc.openingTagIndex + Len(OpenTag))
          IN  g # -1 /\ turn[t].sc.codeStart = g + 1)
  /\ [][\A t \in Turns :
          (/\ DeltaStep(t)
           /\ BodyStreaming(turn[t].sc) /\ BodyStreaming(turn'[t].sc)
           /\ turn'[t].sc.openingTagIndex = turn[t].sc.openingTagIndex)
          => turn'[t].sc.codeStart = turn[t].sc.codeStart]_vars

C23_Witness ==
  \E t \in Turns :
    /\ Reading(t)
    /\ BodyStreaming(turn[t].sc)
    /\ turn[t].sc.openingTagIndex > 0
    /\ turn[t].sc.codeStart < Len(turn[t].sc.assistantContent) - 1
    /\ turn[t].sc.artifactCodeBuffer # <<>>

\* a step that is the user's click on the reopen button
ReopenStep ==
  /\ isArtifactPanelClosed /\ ~isArtifactPanelClosed'
  /\ UNCHANGED <<turn, artifacts, streamingArtifact, timers, isStreaming>>

\* a step in which a streaming artifact starts: an open event is emitted
StreamStartStep ==
  \E t \in Turns : DeltaStep(t) /\ EventsOf(turn'[t].lastEmit, "open") # <<>>

StreamStep(t) ==
  /\ Reading(t) /\ turn'[t].pc = "reading"
  /\ \/ turn'[t].pos > turn[t].pos
     \/ turn'[t].sp \in {"tc", "done"} /\ turn'[t].sp # turn[t].sp

\* C25: the updates of a turn's stream events change only the assistant
\* message created for the turn; every other message of the list keeps its
\* content and its artifacts.
C25_OwnMessageOnly ==
  [][\A t \in Turns : StreamStep(t) =>
       /\ Len(messages') = Len(messages)
       /\ \A k \in 1..Len(messages) :
            ~(messages[k].turn = t /\ messages[k].role = "assistant")
              => messages'[k] = messages[k]]_vars

\* C26: however the network cuts the event stream into chunks, the text the
\* client has assembled is the concatenation, in order, of the text_delta
\* contents the server has written.
C26_NothingLost ==
  \A t \in Turns : (Reading(t) /\ turn[t].sp = "stream") =>
    turn[t].sc.assistantContent = Substring(turn[t].text, 0, turn[t].pos)

\* a step of turn t's own end: its delayed clear fires, or its sendMessage
\* call reaches its finally block
OwnEndStep(t) ==
  \/ t \in timers /\ t \notin timers'
  \/ turn[t].pc \in {"fetching", "reading"} /\ turn'[t].pc = "finished"

\* C27: the delayed clear and the finally block of a turn leave the preview
\* and the streaming flag alone while a later turn is streaming a block.
C27_OtherTurnPreviewKept ==
  [][\A t \in Turns : \A u \in Turns :
       (/\ OwnEndStep(t)
        /\ u > t /\ Reading(u) /\ BodyStreaming(turn[u].sc)
        /\ isStreaming /\ ~streamingArtifact.isNull)
       => ~streamingArtifact'.isNull /\ isStreaming']_vars

\* C28: once text_complete or done has been handled, the artifact the list
\* holds for each block of the text is the one detectArtifacts gives for the
\* block (identifier, kind, title, content), whether the scanner or
\* detectArtifacts recorded it first, and the assistant message carries the
\* same artifact for the block.
C28_SameArtifact ==
  \A t \in Turns : (Detected(t) /\ ~detectArtifacts(turn[t].text, nonce).raised) =>
    \A o \in BlockOffsets(turn[t].text) :
      LET a == PrimaryArtifact(PrimaryMatch(turn[t].text, o))
          same(x) == /\ x.id = a.id /\ x.type = a.type
                     /\ x.title = a.title /\ x.content = a.content
      IN  /\ \A i \in 1..Len(artifacts) : artifacts[i].id = a.id => same(artifacts[i])
          /\ \A i \in 1..Len(artifacts) :
               \A k \in 1..Len(AssistantOf(t).artifacts) :
                 artifacts[i].id = AssistantOf(t).artifacts[k].id
                   => /\ artifacts[i].type = AssistantOf(t).artifacts[k].type
                      /\ artifacts[i].title = AssistantOf(t).artifacts[k].title
                      /\ artifacts[i].content = AssistantOf(t).artifacts[k].content

\* C29: a submitted message is in the message list as a user message once
\* its sendMessage call has ended, also when the request failed before any
\* response arrived.
C29_UserMessageRecorded ==
  \A t \in Turns : turn[t].pc = "finished" =>
    \E k \in 1..Len(messages) : messages[k].turn = t /\ messages[k].role = "user"

\* a is a prefix of b
IsPrefix(a, b) == Len(a) <= Len(b) /\ SubSeq(b, 1, Len(a)) = a

\* C30: the body of a partial event is a prefix of the body of the complete
\* event of the same block.
C30_PartialIsPrefix ==
  [][\A t \in Turns : DeltaStep(t) =>
       \A j \in 1..Len(turn[t].lastEmit), k \in 1..Len(turn'[t].lastEmit) :
         LET e == turn[t].lastEmit[j]
             f == turn'[t].lastEmit[k]
         IN  (e.type = "partial" /\ f.type = "complete" /\ e.at = f.at)
             => IsPrefix(e.code, f.code)]_vars

====
